---------------------------- MODULE Spec2Model ----------------------------
(***************************************************************************)
(* Deals aggregator (server/app.py): the /scrape orchestrator with its     *)
(* per-source tasks, the TTL result cache, the renderer pages, and the     *)
(* pure helpers resolve_url and extract_items.                             *)
(*                                                                         *)
(* Time is counted in ticks of TickSeconds seconds.  A renderer page is    *)
(* open from the moment context.new_page() hands it to a scrape until      *)
(* page.close() is called on it.  asyncio.CancelledError is a              *)
(* BaseException (Python >= 3.8, which app.py lines 24-33 assume), so      *)
(* "except Exception" does not catch a cancellation.                       *)
(***************************************************************************)
EXTENDS Integers, Sequences, FiniteSets, TLC

VARIABLES now, cache, written, reqs, openPages, call

vars == <<now, cache, written, reqs, openPages, call>>

None == "None"

Range(s) == {s[i] : i \in 1..Len(s)}

(***************************************************************************)
(* Bounds of the model.                                                    *)
(***************************************************************************)
\* seconds per clock tick
TickSeconds == 35
\* the clock stops after this many ticks
MaxTicks == 2

\* the concurrent /scrape requests
Requests == {"r1", "r2"}

(***************************************************************************)
(* Configuration (app.py lines 51-72).                                     *)
(***************************************************************************)
SOURCE_MAP ==
    [deal4real |-> [url |-> [kind |-> "abs", scheme |-> "https", host |-> "deal4real.co.il", port |-> "", path |-> <<>>],
                    selector |-> ".product-card-wrapper .product-card, .product-card"],
     zuzu |-> [url |-> [kind |-> "abs", scheme |-> "https", host |-> "zuzu.deals", port |-> "", path |-> <<>>],
                    selector |-> ".col_item"],
     buywithus |-> [url |-> [kind |-> "abs", scheme |-> "https", host |-> "buywithus.org", port |-> "", path |-> <<>>],
                    selector |-> ".col_item"],
     beedeals |-> [url |-> [kind |-> "abs", scheme |-> "https", host |-> "il.bee.deals", port |-> "", path |-> <<"dashboard">>],
                    selector |-> ".pin.nfDealItemsPin"]]

SourceIds == DOMAIN SOURCE_MAP

WHITELIST_HOSTS ==
    {"deal4real.co.il", "www.deal4real.co.il", "zuzu.deals", "www.zuzu.deals",
     "buywithus.org", "www.buywithus.org", "il.bee.deals", "www.il.bee.deals"}

\* TTLCache(maxsize=64, ttl=60)
CACHE_TTL == 60
\* asyncio.wait_for(..., timeout=70)
SCRAPE_TIMEOUT == 70

Time == now * TickSeconds


(***************************************************************************)
(* URLs.  A URL or href is a record [kind, scheme, host, port, path]:      *)
(*   "empty"     the empty string                                          *)
(*   "abs"       scheme://host[:port]/path                                 *)
(*   "netrel"    //host[:port]/path                                        *)
(*   "pathabs"   /path                                                     *)
(*   "rel"       path                                                      *)
(*   "opaque"    scheme:text with no authority (javascript:, mailto:)      *)
(*   "badabs"    scheme://[x  (unbalanced bracket in the authority)        *)
(*   "badnetrel" //[x                                                      *)
(* NoUrl is Python's None; ValueError is the exception urllib raises.      *)
(***************************************************************************)
NoUrl == [kind |-> "none"]

ValueError == [kind |-> "ValueError"]

Url(k, s, h, p, path) == [kind |-> k, scheme |-> s, host |-> h, port |-> p, path |-> path]

\* str.lower() on the host names the model uses
Lower(t) ==
    CASE t = "ZUZU.DEALS" -> "zuzu.deals"
      [] OTHER -> t

\* href.startswith(('http://', 'https://'))
StartsWithHttp(href) ==
    href.kind \in {"abs", "badabs"} /\ href.scheme \in {"http", "https"}

\* directory of a base path: urljoin drops the last segment of the base path
DirOf(path) == IF Len(path) = 0 THEN <<>> ELSE SubSeq(path, 1, Len(path) - 1)

\* urllib.parse.urljoin(base_url, href)
urljoin(base, href) ==
    CASE href.kind = "empty"     -> base
      [] href.kind = "abs"       -> href
      [] href.kind = "opaque"    -> href
      [] href.kind = "netrel"    -> Url("abs", base.scheme, href.host, href.port, href.path)
      [] href.kind = "pathabs"   -> Url("abs", base.scheme, base.host, base.port, href.path)
      [] href.kind = "rel"       -> Url("abs", base.scheme, base.host, base.port,
                                        DirOf(base.path) \o href.path)
      [] OTHER                   -> ValueError

\* urlparse(url).netloc.lower(): the authority, host and port together
netloc(url) ==
    IF url.kind = "opaque" THEN [host |-> "", port |-> ""]
    ELSE [host |-> Lower(url.host), port |-> url.port]

is_allowed_host(url) ==
    IF url.kind \in {"badabs", "badnetrel"} THEN FALSE
    ELSE netloc(url).port = "" /\ netloc(url).host \in WHITELIST_HOSTS

resolve_url(base_url, href, allow_external) ==
    IF href.kind \in {"none", "empty"} THEN NoUrl
    ELSE IF StartsWithHttp(href)
         THEN IF allow_external THEN href
              ELSE IF is_allowed_host(href) THEN href ELSE NoUrl
         ELSE LET absolute == urljoin(base_url, href) IN
              IF absolute.kind = "ValueError" THEN ValueError
              ELSE IF allow_external THEN absolute
              ELSE IF is_allowed_host(absolute) THEN absolute ELSE NoUrl

\* F applied to the value of v (v is evaluated once)
Bind(v, F(_)) == CHOOSE r \in {F(x) : x \in {v}} : TRUE

\* the elements of seq at the positions in S, in the order of seq
Pick(seq, S) ==
    LET idx == SelectSeq([k \in 1..Len(seq) |-> k], LAMBDA k : k \in S)
    IN [n \in 1..Len(idx) |-> seq[idx[n]]]

MinOf(S) == CHOOSE x \in S : \A y \in S : x <= y

MaxOf(S) == CHOOSE x \in S : \A y \in S : x >= y

(***************************************************************************)
(* Text.  A str is the sequence of its characters, "" is <<>> and NoText   *)
(* is None.  The Hebrew letters and the currency signs that are not ASCII  *)
(* are written by name ("resh" "qof" "bet" "he" "het" "lamed" "mem" ...);  *)
(* "NIS" is the shekel sign and "EUR" the euro sign.  " " is the only      *)
(* whitespace character of the model.                                      *)
(***************************************************************************)
NoText == <<None>>

Uppers == <<"A", "B", "C", "D", "E", "F", "G", "H", "I", "J", "K", "L", "M",
            "N", "O", "P", "Q", "R", "S", "T", "U", "V", "W", "X", "Y", "Z">>

Lowers == <<"a", "b", "c", "d", "e", "f", "g", "h", "i", "j", "k", "l", "m",
            "n", "o", "p", "q", "r", "s", "t", "u", "v", "w", "x", "y", "z">>

Digits == {"0", "1", "2", "3", "4", "5", "6", "7", "8", "9"}

Hebrew == {"resh", "qof", "bet", "he", "het", "lamed", "mem", "yod", "vav", "dalet"}

\* (?:NIS|\$|EUR) of the price patterns
Currency == {"NIS", "$", "EUR"}

\* \s
IsSpace(c) == c = " "

\* \d
IsDigit(c) == c \in Digits

\* \w
IsWord(c) == c \in Digits \cup Range(Uppers) \cup Range(Lowers) \cup Hebrew \cup {"_"}

\* str.lower() of one character
LowerChar(c) ==
    IF \E i \in 1..Len(Uppers) : Uppers[i] = c
    THEN Lowers[CHOOSE i \in 1..Len(Uppers) : Uppers[i] = c]
    ELSE c

\* str.lower()
LowerText(t) == Bind(t, LAMBDA s : [i \in 1..Len(s) |-> LowerChar(s[i])])

\* Python truthiness of a text value: neither None nor ""
TruthyText(t) == t \notin {NoText, <<>>}

\* str.strip()
StripText(t) ==
    Bind(t, LAMBDA s :
        Bind({i \in 1..Len(s) : ~IsSpace(s[i])}, LAMBDA idx :
            IF idx = {} THEN <<>> ELSE SubSeq(s, MinOf(idx), MaxOf(idx))))

\* line 87: re.sub(r"\s+", " ", text or "").strip()
normalize_whitespace(t) ==
    Bind(IF t = NoText THEN <<>> ELSE StripText(t), LAMBDA s :
        Pick(s, {i \in 1..Len(s) : ~(i > 1 /\ IsSpace(s[i]) /\ IsSpace(s[i - 1]))}))

\* the position of the first character at or after i that is not a space
SkipSpaces(s, i) ==
    MinOf({j \in i..(Len(s) + 1) : j > Len(s) \/ ~IsSpace(s[j])})

\* sub occurs in s at position i
OccursAt(s, sub, i) ==
    /\ i >= 1
    /\ i + Len(sub) - 1 <= Len(s)
    /\ SubSeq(s, i, i + Len(sub) - 1) = sub

\* sub in s
Contains(s, sub) == \E i \in 1..Len(s) : OccursAt(s, sub, i)

\* [\d,\.] of the price patterns
PriceTail == Digits \cup {",", "."}

\* where the \d of  (?:cur)\s?\d  is when the pattern is tried at position i
\* of s, 0 when it does not match there; with optional the currency sign may
\* be missing: (?:cur)?\s?\d
DigitPos(s, i, cur, optional) ==
    IF s[i] \in cur
    THEN IF i + 2 <= Len(s) /\ IsSpace(s[i + 1]) /\ IsDigit(s[i + 2]) THEN i + 2
         ELSE IF i + 1 <= Len(s) /\ IsDigit(s[i + 1]) THEN i + 1
         ELSE 0
    ELSE IF ~optional THEN 0
    ELSE IF IsSpace(s[i]) THEN (IF i + 1 <= Len(s) /\ IsDigit(s[i + 1]) THEN i + 1 ELSE 0)
    ELSE IF IsDigit(s[i]) THEN i
    ELSE 0

\* the end of the greedy run [\d,\.]* that follows the digit at d
RunEnd(s, d) ==
    MaxOf({j \in d..Len(s) : \A k \in (d + 1)..j : s[k] \in PriceTail})

NoMatch == [from |-> 0, to |-> 0]

\* re.search of  (?:cur)\s?\d[\d,\.]*  in t, the currency sign optional or
\* not, with at least minTail characters after the digit: the leftmost match
price_search(t, cur, optional, minTail) ==
    Bind(t, LAMBDA s :
        Bind({i \in 1..Len(s) :
                 /\ DigitPos(s, i, cur, optional) # 0
                 /\ RunEnd(s, DigitPos(s, i, cur, optional))
                        - DigitPos(s, i, cur, optional) >= minTail},
             LAMBDA starts :
                 IF starts = {} THEN NoMatch
                 ELSE [from |-> MinOf(starts),
                       to |-> RunEnd(s, DigitPos(s, MinOf(starts), cur, optional))]))

\* re.search(r'(?:NIS|\$|EUR)\s?\d[\d,\.]*', t)
currency_price_search(t) == price_search(t, Currency, FALSE, 0)

\* line 69: price_regex.search(t), the currency sign optional
price_regex_search(t) == price_search(t, Currency, TRUE, 0)

\* line 392: re.search(r'(?:NIS|\$|EUR|USD|ILS)?\s?\d[\d,\.]+', t); "USD" and
\* "ILS" are one character each here
beedeals_price_search(t) == price_search(t, Currency \cup {"USD", "ILS"}, TRUE, 1)

\* m.group(0).strip()
Group(s, m) == StripText(SubSeq(s, m.from, m.to))

\* the end of the run of digits that starts at i (i - 1 when s[i] is no digit)
DigitRunEnd(s, i) ==
    MaxOf({j \in (i - 1)..Len(s) : \A k \in i..j : IsDigit(s[k])})

\* where a match of  \d+\.?\d*%  that starts at i ends, 0 when there is none
PercentEnd(s, i) ==
    IF ~IsDigit(s[i]) THEN 0
    ELSE LET e1 == DigitRunEnd(s, i)
             e2 == IF e1 + 1 <= Len(s) /\ s[e1 + 1] = "." THEN DigitRunEnd(s, e1 + 2) ELSE e1
         IN IF e2 + 1 <= Len(s) /\ s[e2 + 1] = "%" THEN e2 + 1 ELSE 0

\* line 136: re.search(r'(\d+\.?\d*%)', t)
percent_search(t) ==
    Bind(t, LAMBDA s :
        Bind({i \in 1..Len(s) : PercentEnd(s, i) # 0}, LAMBDA starts :
            IF starts = {} THEN NoMatch
            ELSE [from |-> MinOf(starts), to |-> PercentEnd(s, MinOf(starts))]))

(***************************************************************************)
(* Markup.  An html document is a sequence of elements; an element has     *)
(*   cls      its class attribute                                          *)
(*   anchors  its <a> descendants in document order, each with its href    *)
(*            and bo-href attributes (NoUrl: attribute absent) and whether *)
(*            it lies inside .pinPrice                                     *)
(*   ng_click the ng-click attribute of its .topHolder ("": no .topHolder  *)
(*            or no attribute)                                             *)
(*   title    the text the title lookups of lines 255-360 end with (NoText *)
(*            when none finds a title)                                     *)
(*   wrapper  its first .product-pricing-wrapper: whether there is one and *)
(*            its <div>s in document order, each with the branch of lines  *)
(*            134-168 its text selects (label), the text of its first      *)
(*            <span> (NoText: no span) and the text after it (tail)        *)
(*   regular_price  the text of its first .rh_regular_price (else          *)
(*            .price_count) element, NoText when there is none             *)
(*   badge    the text of its first discount badge (line 201)              *)
(*   price_class  the text of its first .price element                     *)
(*   pin_price  the text of the first <a> of its .pinPrice                 *)
(*   image_wrapper  its first .product-image-wrapper: whether there is one *)
(*            and the <img>s in it                                         *)
(*   parent_wrapper  the same for the first .product-image-wrapper of the  *)
(*            nearest ancestor that has one                                *)
(*   holder_img  the first <img> of its .image_holder (NoImg: none)        *)
(*   figure_img  the first <img> of the first <a> of its first <figure>    *)
(*   first_img  its first <img>                                            *)
(*   parent_imgs  the first <img> of each of its ancestors, nearest first  *)
(* An <img> has its src, data-src, data-lazy-src and bo-src-i attributes,  *)
(* the first candidate of its srcset (what ^([^\s,]+) matches) and the url *)
(* of the url(...) of its style attribute, each NoUrl when it is missing,  *)
(* and whether product-image is one of its classes.                        *)
(* In a node the elements that carry prices come in the order .price,      *)
(* .rh_regular_price, .pinPrice, and the title text precedes them.         *)
(***************************************************************************)
Anchor(href, bo_href, inPinPrice) ==
    [href |-> href, bo_href |-> bo_href, inPinPrice |-> inPinPrice]

NoWrapper == [present |-> FALSE, divs |-> <<>>]

NoImageWrapper == [present |-> FALSE, imgs |-> <<>>]

NoImg == [product_image |-> FALSE, src |-> NoUrl, data_src |-> NoUrl,
          data_lazy_src |-> NoUrl, bo_src_i |-> NoUrl, srcset |-> NoUrl,
          style |-> NoUrl, present |-> FALSE]

\* an <img> with these attributes
Img(product_image, src, data_src, data_lazy_src, bo_src_i, srcset, style) ==
    [product_image |-> product_image, src |-> src, data_src |-> data_src,
     data_lazy_src |-> data_lazy_src, bo_src_i |-> bo_src_i, srcset |-> srcset,
     style |-> style, present |-> TRUE]

\* a node with a title and the text of a .price element
Node(cls, anchors, ng_click, title, price) ==
    [cls |-> cls, anchors |-> anchors, ng_click |-> ng_click, title |-> title,
     wrapper |-> NoWrapper, regular_price |-> NoText, badge |-> NoText,
     price_class |-> price, pin_price |-> NoText,
     image_wrapper |-> NoImageWrapper, parent_wrapper |-> NoImageWrapper,
     holder_img |-> NoImg, figure_img |-> NoImg, first_img |-> NoImg,
     parent_imgs |-> <<>>]

(***************************************************************************)
(* The title of a node after the lookups: lines 362-376 and 407-429.       *)
(***************************************************************************)
\* the characters re.sub(r'[\s\.,\-_]+', '', title) removes
TitleNoise == {" ", ".", ",", "-", "_"}

\* re.match(r'^\d+$', s)
AllDigits(s) == s # <<>> /\ \A i \in 1..Len(s) : IsDigit(s[i])

\* the least length of a title (line 365)
MinTitleLen == 3

\* lines 362-365: titles that are only numbers or too short are rejected
final_title_filter(t) ==
    Bind(t, LAMBDA title :
        IF ~TruthyText(title) THEN title
        ELSE IF \/ AllDigits(SelectSeq(title, LAMBDA c : c \notin TitleNoise))
                \/ Len(StripText(title)) < MinTitleLen
        THEN NoText
        ELSE title)

\* where the match of  ^\s*<word>\s+<letter>\s*[-:]?\s*(?:cur)?\s*  ends in s,
\* 0 when s does not match; with letter = <<>> the pattern is
\* ^\s*<word>\s+(?:cur)?\s*
PrefixEnd(s, word, letter) ==
    Bind(SkipSpaces(s, 1), LAMBDA p0 :
        IF ~(/\ OccursAt(s, word, p0)
             /\ p0 + Len(word) <= Len(s)
             /\ IsSpace(s[p0 + Len(word)]))
        THEN 0
        ELSE Bind(SkipSpaces(s, p0 + Len(word)), LAMBDA p2 :
            IF letter # <<>> /\ ~OccursAt(s, letter, p2) THEN 0
            ELSE Bind(IF letter = <<>> THEN p2 ELSE SkipSpaces(s, p2 + Len(letter)),
                      LAMBDA p4 :
                Bind(IF letter # <<>> /\ p4 <= Len(s) /\ s[p4] \in {"-", ":"}
                     THEN SkipSpaces(s, p4 + 1) ELSE p4,
                     LAMBDA p6 :
                    IF p6 <= Len(s) /\ s[p6] \in Currency
                    THEN SkipSpaces(s, p6 + 1) - 1
                    ELSE p6 - 1))))

\* re.sub of one of the prefix patterns of lines 370-374
strip_prefix(t, word, letter) ==
    Bind(t, LAMBDA s :
        Bind(PrefixEnd(s, word, letter), LAMBDA e :
            IF e = 0 THEN s ELSE SubSeq(s, e + 1, Len(s))))

\* lines 367-376: the promotional prefixes are removed
strip_prefixes(t) ==
    Bind(t, LAMBDA title :
        IF ~TruthyText(title) THEN title
        ELSE normalize_whitespace(
                 strip_prefix(
                     strip_prefix(
                         strip_prefix(title, <<"resh", "qof">>, <<"bet">>),
                         <<"he", "het", "lamed">>, <<"mem">>),
                     <<"resh", "qof">>, <<>>)))

\* re.sub(re.escape(x), "", t)
RECURSIVE RemoveLiteral(_, _)
RemoveLiteral(t, x) ==
    Bind(t, LAMBDA s :
        Bind({i \in 1..Len(s) : OccursAt(s, x, i)}, LAMBDA occ :
            IF occ = {} THEN s
            ELSE SubSeq(s, 1, MinOf(occ) - 1)
                 \o RemoveLiteral(SubSeq(s, MinOf(occ) + Len(x), Len(s)), x)))

\* re.sub(r'(?:NIS|\$|EUR)\s?\d[\d,\.]*', "", t)
RECURSIVE RemoveCurrencyPrices(_)
RemoveCurrencyPrices(t) ==
    Bind(t, LAMBDA s :
        Bind(currency_price_search(s), LAMBDA m :
            IF m.from = 0 THEN s
            ELSE SubSeq(s, 1, m.from - 1)
                 \o RemoveCurrencyPrices(SubSeq(s, m.to + 1, Len(s)))))

\* where a match of  (?:NIS|\$|EUR)\s?\d[\d,\.]*\s*\([^)]*\)  that starts at i
\* ends, 0 when there is none
ParenPriceEnd(s, i) ==
    Bind(DigitPos(s, i, Currency, FALSE), LAMBDA d :
        IF d = 0 THEN 0
        ELSE Bind(SkipSpaces(s, RunEnd(s, d) + 1), LAMBDA p :
            IF p <= Len(s) /\ s[p] = "(" /\ (\E q \in (p + 1)..Len(s) : s[q] = ")")
            THEN MinOf({q \in (p + 1)..Len(s) : s[q] = ")"})
            ELSE 0))

\* re.sub(r'(?:NIS|\$|EUR)\s?\d[\d,\.]*\s*\([^)]*\)', "", t)
RECURSIVE RemoveParenPrices(_)
RemoveParenPrices(t) ==
    Bind(t, LAMBDA s :
        Bind({i \in 1..Len(s) : ParenPriceEnd(s, i) # 0}, LAMBDA starts :
            IF starts = {} THEN s
            ELSE SubSeq(s, 1, MinOf(starts) - 1)
                 \o RemoveParenPrices(SubSeq(s, ParenPriceEnd(s, MinOf(starts)) + 1, Len(s)))))

\* lines 410-421: a price found in the title becomes the price
move_price_from_title(title, price) ==
    Bind(currency_price_search(title), LAMBDA m :
        IF /\ m.from # 0
           /\ (m.from = 1 \/ ~IsWord(title[m.from - 1]))
           /\ (m.to = Len(title) \/ ~IsWord(title[m.to + 1]))
        THEN Bind(Group(title, m), LAMBDA extracted_price :
                 [title |-> normalize_whitespace(StripText(RemoveLiteral(title, extracted_price))),
                  price |-> extracted_price])
        ELSE [title |-> title, price |-> price])

\* lines 423-428: what is left of prices is removed from the title
clean_title(r) ==
    IF TruthyText(r.price) /\ TruthyText(r.title)
    THEN [r EXCEPT !.title =
             normalize_whitespace(
                 StripText(RemoveCurrencyPrices(StripText(RemoveParenPrices(r.title)))))]
    ELSE r

\* lines 407-429: the price/title reconciliation, [title, price]
reconcile(t, p) ==
    Bind(t, LAMBDA title : Bind(p, LAMBDA price :
        Bind(IF TruthyText(title) /\ ~TruthyText(price)
             THEN move_price_from_title(title, price)
             ELSE [title |-> title, price |-> price],
             LAMBDA r : clean_title(r))))

\* soup.select(selector): whether an element of class cls matches
Matches(selector, cls) ==
    CASE selector = ".col_item" -> cls = "col_item"
      [] selector = ".pin.nfDealItemsPin" -> cls = "pin nfDealItemsPin"
      [] selector = ".product-card-wrapper .product-card, .product-card" -> cls = "product-card"
      [] selector = ".product-card" -> cls = "product-card"
      [] OTHER -> FALSE

select(html, selector) == SelectSeq(html, LAMBDA n : Matches(selector, n.cls))

\* Python truthiness of an attribute value: neither None nor ""
Truthy(h) == h.kind \notin {"none", "empty"}

\* a or b
Or(a, b) == IF Truthy(a) THEN a ELSE b

\* "go.php" in link_href or "bee.deals" in link_href
IsGoLink(h) ==
    h.kind \in {"abs", "netrel", "pathabs", "rel"}
    /\ (\/ "go.php" \in Range(h.path)
        \/ h.kind \in {"abs", "netrel"} /\ h.host \in {"il.bee.deals", "www.il.bee.deals"})

\* node.find("a", href=True): the first anchor that has an href attribute
FirstHrefAnchor(anchors) ==
    LET idx == {i \in 1..Len(anchors) : anchors[i].href.kind # "none"} IN
    IF idx = {} THEN 0 ELSE CHOOSE i \in idx : \A j \in idx : i <= j

\* node.select_one(".pinPrice a")
FirstPinPriceAnchor(anchors) ==
    LET idx == {i \in 1..Len(anchors) : anchors[i].inPinPrice} IN
    IF idx = {} THEN 0 ELSE CHOOSE i \in idx : \A j \in idx : i <= j

\* lines 553-560: the first anchor with an href whose target is a go.php or bee.deals link
FirstGoAnchor(anchors) ==
    LET idx == {i \in 1..Len(anchors) :
                   /\ anchors[i].href.kind # "none"
                   /\ Truthy(Or(anchors[i].href, anchors[i].bo_href))
                   /\ IsGoLink(Or(anchors[i].href, anchors[i].bo_href))} IN
    IF idx = {} THEN 0 ELSE CHOOSE i \in idx : \A j \in idx : i <= j

\* allow_external of the beedeals link lookups (lines 552, 559, 572)
BeedealsLinkAllowExternal == TRUE

\* lines 547-572: the beedeals link lookups, in order
beedeals_link(node, base_url) ==
    LET pp  == FirstPinPriceAnchor(node.anchors)
        ppHref == IF pp = 0 THEN NoUrl
                  ELSE Or(node.anchors[pp].bo_href, node.anchors[pp].href)
        l1  == IF Truthy(ppHref) THEN resolve_url(base_url, ppHref, BeedealsLinkAllowExternal)
               ELSE NoUrl
        go  == FirstGoAnchor(node.anchors)
        l2  == IF Truthy(l1) \/ l1.kind = "ValueError" THEN l1
               ELSE IF go = 0 THEN l1
               ELSE resolve_url(base_url, Or(node.anchors[go].href, node.anchors[go].bo_href),
                                BeedealsLinkAllowExternal)
        fa  == FirstHrefAnchor(node.anchors)
        l3  == IF Truthy(l2) \/ l2.kind = "ValueError" THEN l2
               ELSE IF node.ng_click = "alphaId" /\ fa # 0 /\ Truthy(node.anchors[fa].href)
                    THEN resolve_url(base_url, node.anchors[fa].href, BeedealsLinkAllowExternal)
                    ELSE l2
    IN l3

\* lines 543-577: the link of a node (ValueError when resolve_url raises)
extract_link(node, base_url, source_id) ==
    LET l  == IF source_id = "beedeals" THEN beedeals_link(node, base_url) ELSE NoUrl
        fa == FirstHrefAnchor(node.anchors)
    IN IF Truthy(l) \/ l.kind = "ValueError" THEN l
       ELSE IF fa = 0 THEN NoUrl
       ELSE resolve_url(base_url, node.anchors[fa].href, FALSE)

(***************************************************************************)
(* The price of a node: extract_price_text (lines 121-246) and lines       *)
(* 378-405 of extract_items.                                               *)
(***************************************************************************)
\* the labels of the deal4real pricing <div>s (lines 135, 140, 154)
DiscountLabel == <<"yod", "resh", "yod", "dalet", "he", ":">>

PreviousLabel == <<"mem", "het", "yod", "resh", " ", "qof", "vav", "dalet", "mem">>

CurrentLabel == <<"mem", "het", "yod", "resh", ":">>

DiscountWord == <<"d", "i", "s", "c", "o", "u", "n", "t">>

PreviousWords == <<"p", "r", "e", "v", "i", "o", "u", "s", " ", "p", "r", "i", "c", "e">>

\* a <div> of the pricing wrapper: the text before its first <span>, the
\* text of the span (NoText: no span) and the text after it
Div(head, span, tail) == [head |-> head, span |-> span, tail |-> tail]

\* div.get_text()
DivText(div) == div.head \o (IF div.span = NoText THEN <<>> ELSE div.span) \o div.tail

\* the first currency-prefixed price of t, old when t has none
FoundIn(t, old) ==
    Bind(t, LAMBDA s :
        Bind(currency_price_search(s), LAMBDA m :
            IF m.from = 0 THEN old ELSE Group(s, m)))

\* lines 142-153 and 156-169: the span first, then the text of the div when
\* nothing is found yet
span_then_div(div, div_text, old) ==
    Bind(IF div.span # NoText THEN FoundIn(StripText(div.span), old) ELSE old,
         LAMBDA found : IF ~TruthyText(found) THEN FoundIn(div_text, found) ELSE found)

NoPrices == [price_text |-> NoText, original_price |-> NoText, discount_text |-> NoText]

\* lines 134-169: one <div> of the pricing wrapper
price_div(acc, div) ==
    Bind(DivText(div), LAMBDA div_text :
        IF \/ Contains(div_text, DiscountLabel)
           \/ Contains(LowerText(div_text), DiscountWord)
        THEN Bind(percent_search(div_text), LAMBDA m :
                 IF m.from = 0 THEN acc
                 ELSE [acc EXCEPT !.discount_text = SubSeq(div_text, m.from, m.to)])
        ELSE IF \/ Contains(div_text, PreviousLabel)
                \/ Contains(LowerText(div_text), PreviousWords)
        THEN [acc EXCEPT !.original_price = span_then_div(div, div_text, acc.original_price)]
        ELSE IF Contains(div_text, CurrentLabel)
        THEN [acc EXCEPT !.price_text = span_then_div(div, div_text, acc.price_text)]
        ELSE acc)

\* lines 133-169: the loop over the first n <div>s
RECURSIVE price_divs(_, _)
price_divs(divs, n) ==
    IF n = 0 THEN NoPrices
    ELSE Bind(price_divs(divs, n - 1), LAMBDA acc : price_div(acc, divs[n]))

\* lines 172-177: current (previous), current (discount), or the discount
assemble_price(acc) ==
    IF TruthyText(acc.price_text) /\ TruthyText(acc.original_price)
    THEN acc.price_text \o <<" ", "(">> \o acc.original_price \o <<")">>
    ELSE IF TruthyText(acc.price_text) /\ TruthyText(acc.discount_text)
    THEN acc.price_text \o <<" ", "(">> \o acc.discount_text \o <<")">>
    ELSE IF TruthyText(acc.discount_text) /\ ~TruthyText(acc.price_text)
    THEN acc.discount_text
    ELSE acc.price_text

\* lines 126-177: the price of the deal4real pricing wrapper
deal4real_price(node) ==
    IF node.wrapper.present
    THEN Bind(price_divs(node.wrapper.divs, Len(node.wrapper.divs)),
              LAMBDA acc : assemble_price(acc))
    ELSE NoText

\* lines 181-190: [returned, price_text]; returned when line 186 returns
zuzu_price(node) ==
    Bind(StripText(node.regular_price), LAMBDA price_text :
        IF Contains(price_text, <<"%">>) THEN [returned |-> TRUE, price_text |-> price_text]
        ELSE Bind(price_regex_search(price_text), LAMBDA m :
                 [returned |-> FALSE,
                  price_text |-> IF m.from # 0 THEN Group(price_text, m) ELSE price_text]))

\* lines 194-216
buywithus_price(node) ==
    Bind(StripText(node.regular_price), LAMBDA price_text :
        Bind(price_regex_search(price_text), LAMBDA m :
            IF m.from # 0
            THEN IF node.badge # NoText /\ Contains(StripText(node.badge), <<"%">>)
                 THEN Group(price_text, m) \o <<" ", "(">> \o StripText(node.badge) \o <<")">>
                 ELSE Group(price_text, m)
            ELSE IF Contains(price_text, <<"%">>) THEN price_text
            ELSE NoText))

\* ts joined with " "
RECURSIVE JoinTexts(_)
JoinTexts(ts) ==
    IF ts = <<>> THEN <<>>
    ELSE IF Len(ts) = 1 THEN ts[1]
    ELSE ts[1] \o <<" ">> \o JoinTexts(Tail(ts))

\* the texts of the <div>s of the pricing wrapper, piece by piece
DivPieces(divs) ==
    [k \in 1..(3 * Len(divs)) |->
        LET div == divs[(k + 2) \div 3]
        IN IF k % 3 = 1 THEN div.head ELSE IF k % 3 = 2 THEN div.span ELSE div.tail]

\* root.get_text(" ", strip=True)
RootText(node) ==
    Bind(<<node.title>> \o DivPieces(node.wrapper.divs)
             \o <<node.price_class, node.regular_price, node.badge, node.pin_price>>,
         LAMBDA pieces :
             Bind(SelectSeq(pieces, LAMBDA t : t # NoText /\ StripText(t) # <<>>),
                  LAMBDA texts : JoinTexts([k \in 1..Len(texts) |-> StripText(texts[k])])))

\* lines 221-232: the text of the .price element, else of the first element
\* whose class contains "price"
generic_price_elem(node) ==
    IF node.price_class # NoText THEN node.price_class
    ELSE IF node.regular_price # NoText THEN node.regular_price
    ELSE node.pin_price

\* lines 220-244: the generic fallback
generic_price(node, price_text) ==
    Bind(generic_price_elem(node), LAMBDA price_elem :
        Bind(IF price_elem # NoText /\ StripText(price_elem) # <<>>
             THEN StripText(price_elem)
             ELSE RootText(node),
             LAMBDA text :
                 IF text = <<>> THEN price_text ELSE FoundIn(text, price_text)))

\* extract_price_text(root, source_id)
extract_price_text(node, source_id) ==
    Bind(IF source_id = "deal4real" THEN deal4real_price(node) ELSE NoText, LAMBDA p1 :
        Bind(IF ~TruthyText(p1) /\ source_id = "zuzu" /\ node.regular_price # NoText
             THEN zuzu_price(node)
             ELSE [returned |-> FALSE, price_text |-> p1],
             LAMBDA z :
                 IF z.returned THEN z.price_text
                 ELSE Bind(IF /\ ~TruthyText(z.price_text)
                              /\ source_id = "buywithus"
                              /\ node.regular_price # NoText
                           THEN buywithus_price(node)
                           ELSE z.price_text,
                           LAMBDA p3 :
                               IF ~TruthyText(p3) THEN generic_price(node, p3) ELSE p3)))

\* the prices line 389 rejects
InvalidPrices ==
    {<<"$", "0", ".", "0">>, <<"$", "0">>, <<"0", ".", "0">>, <<"0">>,
     <<"NIS", "0">>, <<"EUR", "0">>}

\* lines 383-395: the price of the beedeals .pinPrice link
beedeals_pin_price(node) ==
    IF node.pin_price = NoText THEN NoText
    ELSE Bind(normalize_whitespace(node.pin_price), LAMBDA price_text :
             IF TruthyText(price_text) /\ price_text \notin InvalidPrices
             THEN Bind(beedeals_price_search(price_text), LAMBDA m :
                      IF m.from # 0 THEN Group(price_text, m)
                      ELSE IF Len(price_text) > 2 THEN price_text
                      ELSE NoText)
             ELSE NoText)

\* lines 403-405: a price of one digit is dropped
single_digit_guard(p) ==
    Bind(p, LAMBDA price :
        IF /\ TruthyText(price)
           /\ Len(StripText(price)) = 1
           /\ IsDigit(StripText(price)[1])
        THEN NoText
        ELSE price)

\* lines 379-405: the price of a node
item_price(node, source_id) ==
    single_digit_guard(
        Bind(IF source_id = "beedeals" THEN beedeals_pin_price(node) ELSE NoText,
             LAMBDA price :
                 IF TruthyText(price) THEN price ELSE extract_price_text(node, source_id)))

(***************************************************************************)
(* The image of a node: lines 431-541 of extract_items.  An attribute that *)
(* is only whitespace has kind "blank"; a data URI is an opaque url of     *)
(* scheme "data".                                                          *)
(***************************************************************************)
\* img_src.startswith("data:")
IsDataUri(u) == u.kind = "opaque" /\ u.scheme = "data"

\* img_src and img_src.strip() and not img_src.startswith("data:")
Usable(u) == Truthy(u) /\ u.kind # "blank" /\ ~IsDataUri(u)

\* img.get("src") or img.get("data-src") or img.get("data-lazy-src")
src_chain(img) == Or(img.src, Or(img.data_src, img.data_lazy_src))

\* the image of an attribute value that passes the test of lines 474, 487,
\* 501, 521 and 538
image_from(base_url, img_src) ==
    IF Usable(img_src) THEN resolve_url(base_url, img_src, TRUE) ELSE NoUrl

\* lines 456-469: the img.product-image of the wrapper, else its first <img>
wrapper_img(imgs) ==
    IF \E k \in 1..Len(imgs) : imgs[k].product_image
    THEN imgs[MinOf({k \in 1..Len(imgs) : imgs[k].product_image})]
    ELSE IF imgs # <<>> THEN imgs[1]
    ELSE NoImg

\* lines 436-477
deal4real_image(node, base_url) ==
    Bind(IF node.image_wrapper.present THEN node.image_wrapper ELSE node.parent_wrapper,
         LAMBDA image_wrapper :
             IF image_wrapper.present /\ wrapper_img(image_wrapper.imgs).present
             THEN image_from(base_url, src_chain(wrapper_img(image_wrapper.imgs)))
             ELSE NoUrl)

\* lines 480-489
beedeals_image(node, base_url) ==
    IF node.holder_img.present
    THEN image_from(base_url, Or(node.holder_img.bo_src_i, src_chain(node.holder_img)))
    ELSE NoUrl

\* lines 492-514
figure_image(node, base_url) ==
    IF ~node.figure_img.present THEN NoUrl
    ELSE Bind(image_from(base_url, src_chain(node.figure_img)), LAMBDA image :
             IF ~Truthy(image)
                /\ Truthy(node.figure_img.srcset)
                /\ ~IsDataUri(node.figure_img.srcset)
             THEN resolve_url(base_url, node.figure_img.srcset, TRUE)
             ELSE image)

\* lines 517-529: the first <img> of the node, its style when its src gives
\* no image
fallback_image(node, base_url) ==
    IF ~node.first_img.present THEN NoUrl
    ELSE Bind(image_from(base_url, src_chain(node.first_img)), LAMBDA image :
             IF ~Truthy(image) /\ node.first_img.style # NoUrl
             THEN resolve_url(base_url, node.first_img.style, TRUE)
             ELSE image)

\* lines 532-540: the first ancestor whose first <img> has a usable source
parent_image(node, base_url) ==
    Bind({k \in 1..Len(node.parent_imgs) :
             /\ node.parent_imgs[k].present
             /\ Usable(src_chain(node.parent_imgs[k]))},
         LAMBDA found :
             IF found = {} THEN NoUrl
             ELSE resolve_url(base_url, src_chain(node.parent_imgs[MinOf(found)]), TRUE))

\* lines 431-541: the image of a node
image_of(node, base_url, source_id) ==
    Bind(IF source_id = "deal4real" THEN deal4real_image(node, base_url) ELSE NoUrl,
         LAMBDA i1 :
    Bind(IF ~Truthy(i1) /\ source_id = "beedeals" THEN beedeals_image(node, base_url) ELSE i1,
         LAMBDA i2 :
    Bind(IF ~Truthy(i2) /\ source_id \in {"zuzu", "buywithus"}
         THEN figure_image(node, base_url) ELSE i2,
         LAMBDA i3 :
    Bind(IF ~Truthy(i3) THEN fallback_image(node, base_url) ELSE i3,
         LAMBDA i4 :
             IF ~Truthy(i4) THEN parent_image(node, base_url) ELSE i4))))

\* lines 362-429: the title and the price of a node, [title, price]
title_and_price(node, source_id) ==
    reconcile(strip_prefixes(final_title_filter(node.title)), item_price(node, source_id))

\* lines 579-586 with the title-or-link rule of beedeals left out
dropped_generic(title, link, price, source_id) ==
    ~TruthyText(title) /\ ~Truthy(link) /\ ~TruthyText(price)

\* lines 579-586: whether the node is dropped for lack of fields
dropped(title, link, price, source_id) ==
    IF source_id = "beedeals" THEN ~TruthyText(title) /\ ~Truthy(link)
    ELSE ~TruthyText(title) /\ ~Truthy(link) /\ ~TruthyText(price)

\* line 589 without .lower(): titles compared as written
dedupe_key_exact(title, link) ==
    IF Truthy(link) THEN [k |-> "link", url |-> link, text |-> ""]
    ELSE IF TruthyText(title) THEN [k |-> "text", url |-> NoUrl, text |-> title]
    ELSE [k |-> "none", url |-> NoUrl, text |-> ""]

\* line 589: link or (title.lower() if title else None)
dedupe_key(title, link) ==
    IF Truthy(link) THEN [k |-> "link", url |-> link, text |-> ""]
    ELSE IF TruthyText(title) THEN [k |-> "text", url |-> NoUrl, text |-> LowerText(title)]
    ELSE [k |-> "none", url |-> NoUrl, text |-> ""]

\* lines 579-594 for one node whose title, price, image and link are known;
\* acc = [raised, items, seen_keys]
extract_step(tp, image, link, source_id, acc) ==
    Bind(dedupe_key(tp.title, link), LAMBDA key :
        IF image.kind = "ValueError" \/ link.kind = "ValueError"
        THEN [acc EXCEPT !.raised = TRUE]
        ELSE IF dropped(tp.title, link, tp.price, source_id) \/ key \in acc.seen_keys
        THEN acc
        ELSE [acc EXCEPT !.seen_keys = @ \cup {key},
                         !.items = Append(@, [title |-> tp.title, link |-> link,
                                              price |-> tp.price, image |-> image])])

\* lines 254-594: the loop over the first n selected nodes
RECURSIVE extract_loop(_, _, _, _)
extract_loop(nodes, n, base_url, source_id) ==
    IF n = 0 THEN [raised |-> FALSE, items |-> <<>>, seen_keys |-> {}]
    ELSE Bind(extract_loop(nodes, n - 1, base_url, source_id),
              LAMBDA acc :
                  IF acc.raised THEN acc
                  ELSE Bind(title_and_price(nodes[n], source_id), LAMBDA tp :
                       Bind(image_of(nodes[n], base_url, source_id), LAMBDA image :
                       Bind(extract_link(nodes[n], base_url, source_id), LAMBDA link :
                           extract_step(tp, image, link, source_id, acc)))))

\* extract_items(html, base_url, selector, source_id): [raised, items]
extract_items(html, base_url, selector, source_id) ==
    Bind(select(html, selector),
         LAMBDA nodes :
             Bind(extract_loop(nodes, Len(nodes), base_url, source_id),
                  LAMBDA r : [raised |-> r.raised,
                              items |-> IF r.raised THEN <<>> ELSE r.items]))

(***************************************************************************)
(* What the renderer may return for a page (bounds of the model).          *)
(***************************************************************************)
HrefDeal1 == Url("pathabs", "", "", "", <<"deal", "1">>)
HrefDeal2 == Url("rel", "", "", "", <<"deal", "2">>)
HrefGo == Url("pathabs", "", "", "", <<"go.php">>)
HrefShop == Url("abs", "https", "shop.example", "", <<"item">>)
HrefBroken == Url("badnetrel", "", "", "", <<>>)

\* the texts "Deal A", "DEAL A", "Deal B", "$199.99", "$5.00" and "$7.00"
DealA == <<"D", "e", "a", "l", " ", "A">>

DealAUpper == <<"D", "E", "A", "L", " ", "A">>

DealB == <<"D", "e", "a", "l", " ", "B">>

Price199 == <<"$", "1", "9", "9", ".", "9", "9">>

Price5 == <<"$", "5", ".", "0", "0">>

Price7 == <<"$", "7", ".", "0", "0">>

DocA ==
    << Node("col_item", <<Anchor(HrefDeal1, NoUrl, FALSE)>>, "", DealA, Price199),
       Node("pin nfDealItemsPin", <<Anchor(HrefGo, NoUrl, TRUE)>>, "alphaId", DealA, NoText) >>

DocB ==
    << Node("col_item", <<Anchor(HrefDeal2, NoUrl, FALSE)>>, "", DealB, NoText),
       Node("col_item", <<Anchor(HrefDeal1, NoUrl, FALSE)>>, "", DealAUpper, NoText),
       Node("pin nfDealItemsPin", <<Anchor(NoUrl, HrefShop, TRUE)>>, "", DealB, Price5) >>

\* a document with an href urljoin cannot parse: extract_items raises ValueError
DocBroken ==
    << Node("col_item", <<Anchor(HrefBroken, NoUrl, FALSE)>>, "", DealA, NoText),
       Node("pin nfDealItemsPin", <<Anchor(HrefBroken, NoUrl, FALSE)>>, "", DealA, NoText) >>

Htmls == {DocA, DocB, DocBroken}

\* extract_items on each page for each source, computed once: <<html,
\* source_id, what extract_items returns>>
PageItems ==
    {<<html, s, extract_items(html, SOURCE_MAP[s].url, SOURCE_MAP[s].selector, s)>> :
        html \in Htmls, s \in DOMAIN SOURCE_MAP}

\* line 642: extract_items(html, meta["url"], meta["selector"], source_id=source_id)
extract_page(html, source_id) ==
    (CHOOSE e \in PageItems : e[1] = html /\ e[2] = source_id)[3]

(***************************************************************************)
(* The result cache: cachetools.TTLCache(maxsize=64, ttl=60) (line 72).    *)
(* An entry carries the time it expires; an expired entry is not "in" the  *)
(* cache.                                                                  *)
(***************************************************************************)
\* f"src:{source_id}"
cache_key(source_id) == <<"src", source_id>>

CacheKeys == {cache_key(s) : s \in SourceIds}

NoEntry == [present |-> FALSE, value |-> <<>>, expires |-> 0]

\* a cache whose entries never expire
CacheContainsForever(c, key, t) == c[key].present

\* cache_key in _cache
CacheContains(c, key, t) == c[key].present /\ t < c[key].expires

\* _cache[cache_key]
CacheGet(c, key) == c[key].value

\* _cache[cache_key] = items
CacheSet(c, key, items, t) ==
    [c EXCEPT ![key] = [present |-> TRUE, value |-> items, expires |-> t + CACHE_TTL]]

\* _cache.clear()
CacheClear == [k \in CacheKeys |-> NoEntry]

\* history of the cache writes: the last write of each key since the last clear
\* (unwinding: a timed-out scrape of the key had not yet ended when it was written;
\* stale: a clear-cache ran while the scrape that wrote it was rendering)
NoWrite == [at |-> -1, value |-> <<>>, unwinding |-> FALSE, stale |-> FALSE]

(***************************************************************************)
(* A /scrape request and its tasks.                                        *)
(*   pc of a task: "start" (run_one created by gather), "new_page",        *)
(*   "goto" (awaiting page.goto and the best-effort wait for the selector  *)
(*   that follows it), "content" (awaiting page.content()), "closing" (in  *)
(*   finally, awaiting page.close()), "returned" (scrape_source returned   *)
(*   ret), "cancelled" (scrape_source ended with CancelledError),          *)
(*   "settled" (run_one wrote results[src]).                               *)
(*   how: "hit" cache hit, "ok" rendered and extracted, "exc" an exception *)
(*   was raised in render or extraction, "timeout" wait_for timed out.     *)
(*   stale: a clear-cache ran after the scrape's cache check and before    *)
(*   its end (history, read by no action's guard).                         *)
(***************************************************************************)
NoPage == <<"", 0>>

IdleRequest ==
    [status |-> "idle", requested |-> <<>>, allowed |-> <<>>,
     results |-> <<>>, tasks |-> <<>>]

NewTask(src) ==
    [src |-> src, pc |-> "start", page |-> NoPage, deadline |-> 0,
     how |-> "", html |-> <<>>, ret |-> <<>>, stale |-> FALSE]

\* s.strip() on the tokens the model uses
Strip(t) ==
    CASE t = " zuzu " -> "zuzu"
      [] t = " " -> ""
      [] OTHER -> t

\* line 739: [s.strip() for s in sources.split(",") if s.strip()]
RECURSIVE parse_sources(_)
parse_sources(tokens) ==
    IF tokens = <<>> THEN <<>>
    ELSE IF Strip(Head(tokens)) = "" THEN parse_sources(Tail(tokens))
    ELSE <<Strip(Head(tokens))>> \o parse_sources(Tail(tokens))

\* line 740 without its membership test: every requested id is kept
filter_allowed_all(requested) == requested

\* line 740: [s for s in requested if s in SOURCE_MAP.keys()]
filter_allowed(requested) == SelectSeq(requested, LAMBDA s : s \in SourceIds)

\* line 743: {s: [] for s in allowed}
initial_results(allowed) == [s \in Range(allowed) |-> <<>>]

\* the sources query strings, split at the commas (a bound of the model)
SourceLists(r) ==
    IF r = "r1"
    THEN { <<"">>, <<"unknown">>, <<" zuzu ">>, <<"zuzu", "zuzu">>,
           <<"zuzu", "unknown", " ", "beedeals">> }
    ELSE { <<"unknown">>, <<"zuzu">> }

\* results[src] = items on a dict
DictSet(d, k, v) == [x \in (DOMAIN d) \cup {k} |-> IF x = k THEN v ELSE d[x]]

Task(r, i) == reqs[r].tasks[i]

TaskIds(r) == DOMAIN reqs[r].tasks

SetTask(r, i, t) == [reqs EXCEPT ![r].tasks[i] = t]

\* the awaits of fetch_page_html inside try (lines 606-625)
InTry == {"goto", "content"}

\* scrape_source is past its cache check and has not ended (lines 637-656)
Rendering == {"new_page", "closing"} \cup InTry

\* the per-source timer of wait_for has not fired yet
NotDue(t) == Time < t.deadline

NoCall == [fn |-> "none"]

Init ==
    /\ now = 0
    /\ cache = CacheClear
    /\ written = [k \in CacheKeys |-> NoWrite]
    /\ reqs = [r \in Requests |-> IdleRequest]
    /\ openPages = {}
    /\ call = NoCall

(***************************************************************************)
(* GET /scrape (lines 736-760).                                            *)
(***************************************************************************)
\* lines 739-743 and the creation of the run_one tasks by gather (line 759)
Scrape(r, sources) ==
    LET requested == parse_sources(sources)
        allowed   == filter_allowed(requested)
    IN /\ reqs[r].status = "idle"
       /\ reqs' = [reqs EXCEPT ![r] =
               [status |-> "running", requested |-> requested, allowed |-> allowed,
                results |-> initial_results(allowed),
                tasks |-> [i \in 1..Len(allowed) |-> NewTask(allowed[i])]]]
       /\ UNCHANGED <<now, cache, written, openPages, call>>

\* a scrape of src has been timed out and is still in its finally clause
Unwinding(src) ==
    \E r \in Requests : \E i \in TaskIds(r) :
        Task(r, i).src = src /\ Task(r, i).pc = "closing" /\ Task(r, i).how = "timeout"

\* line 657 in a finally clause: reached on cancellation too
scrape_source_stores_always(how) == TRUE

\* line 657 is reached on every exit of the try statement that "except Exception"
\* handles; a CancelledError passes through and skips it
scrape_source_stores(how) == how # "timeout"

\* the end of scrape_source (lines 653-658): items is what it returns
EndScrape(r, i, how, items) ==
    LET t == Task(r, i)
        key == cache_key(t.src)
    IN /\ reqs' = SetTask(r, i, [t EXCEPT !.pc = IF how = "timeout" THEN "cancelled" ELSE "returned",
                                          !.how = how, !.html = <<>>, !.ret = items,
                                          !.deadline = 0, !.stale = FALSE])
       /\ IF scrape_source_stores(how)
          THEN /\ cache' = CacheSet(cache, key, items, Time)
               /\ written' = [written EXCEPT ![key] =
                      [at |-> Time, value |-> items, unwinding |-> Unwinding(t.src),
                       stale |-> t.stale]]
          ELSE UNCHANGED <<cache, written>>

\* lines 630-641 without the cache check of lines 634-635
begin_scrape_unchecked(t) ==
    IF t.src \notin SourceIds
    THEN [t EXCEPT !.pc = "returned", !.how = "unknown"]
    ELSE [t EXCEPT !.pc = "new_page", !.deadline = Time + SCRAPE_TIMEOUT]

\* lines 630-641 for one task: the registry check, the cache check, and on a
\* miss the call of fetch_page_html up to its first await; wait_for (line 747)
\* arms its timer
begin_scrape(t) ==
    IF t.src \notin SourceIds
    THEN [t EXCEPT !.pc = "returned", !.how = "unknown"]
    ELSE IF CacheContains(cache, cache_key(t.src), Time)
    THEN [t EXCEPT !.pc = "returned", !.how = "hit", !.ret = CacheGet(cache, cache_key(t.src))]
    ELSE [t EXCEPT !.pc = "new_page", !.deadline = Time + SCRAPE_TIMEOUT]

\* The run_one tasks that gather created (line 759) are next to each other in
\* the event loop's ready queue: each runs to its first await before anything
\* else runs.
Begin(r) ==
    /\ reqs[r].status = "running"
    /\ TaskIds(r) # {}
    /\ \A i \in TaskIds(r) : Task(r, i).pc = "start"
    /\ reqs' = [reqs EXCEPT ![r].tasks = [i \in TaskIds(r) |-> begin_scrape(Task(r, i))]]
    /\ UNCHANGED <<now, cache, written, openPages, call>>

\* context.new_page() (line 605)
new_page(r, i) == <<r, i>>

\* line 605: the page is handed over, or new_page raises (outside the try)
NewPage(r, i) ==
    LET t == Task(r, i) IN
    /\ t.pc = "new_page"
    /\ NotDue(t)
    /\ \/ /\ reqs' = SetTask(r, i, [t EXCEPT !.pc = "goto", !.page = new_page(r, i)])
          /\ openPages' = openPages \cup {new_page(r, i)}
          /\ UNCHANGED <<cache, written>>
       \/ /\ EndScrape(r, i, "exc", <<>>)
          /\ UNCHANGED openPages
    /\ UNCHANGED <<now, call>>

\* page.close() at the end of the try body instead of in finally
finally_closes_on_success(how) == how = "ok"

\* the finally clause of fetch_page_html (lines 626-627) runs on every exit of the try
finally_closes(how) == TRUE

\* leaving the try of fetch_page_html: finally calls page.close() and awaits it
EnterFinally(r, i, how, html) ==
    LET t == Task(r, i) IN
    /\ reqs' = SetTask(r, i, [t EXCEPT !.pc = "closing", !.how = how, !.html = html])
    /\ openPages' = IF finally_closes(how) THEN openPages \ {t.page} ELSE openPages
    /\ UNCHANGED <<cache, written>>

\* page.goto (lines 609, 618) returns or raises; after it the wait for the
\* selector (lines 611-616, 620-623) is best effort: its exceptions are swallowed
Goto(r, i) ==
    LET t == Task(r, i) IN
    /\ t.pc = "goto"
    /\ NotDue(t)
    /\ \/ /\ reqs' = SetTask(r, i, [t EXCEPT !.pc = "content"])
          /\ UNCHANGED <<cache, written, openPages>>
       \/ EnterFinally(r, i, "exc", <<>>)
    /\ UNCHANGED <<now, call>>

\* page.content() (line 624)
Content(r, i) ==
    LET t == Task(r, i) IN
    /\ t.pc = "content"
    /\ NotDue(t)
    /\ \/ \E html \in Htmls : EnterFinally(r, i, "ok", html)
       \/ EnterFinally(r, i, "exc", <<>>)
    /\ UNCHANGED <<now, call>>

\* page.close() returns (line 627), then lines 642-658 run without an await
ClosePage(r, i) ==
    LET t == Task(r, i)
    IN /\ t.pc = "closing"
       /\ t.how = "timeout" \/ NotDue(t)
       /\ IF t.how = "ok"
          THEN \E got \in {extract_page(t.html, t.src)} :
                   EndScrape(r, i, IF got.raised THEN "exc" ELSE "ok", got.items)
          ELSE EndScrape(r, i, t.how, <<>>)
       /\ UNCHANGED <<now, openPages, call>>

\* asyncio.wait_for(..., timeout=70) (lines 747-749): the timer fires while
\* scrape_source is suspended, and CancelledError is thrown into its await
Timeout(r, i) ==
    LET t == Task(r, i) IN
    /\ t.pc \in {"new_page", "closing"} \cup InTry
    /\ t.how # "timeout"
    /\ ~NotDue(t)
    /\ IF t.pc \in InTry
       THEN EnterFinally(r, i, "timeout", <<>>)
       ELSE EndScrape(r, i, "timeout", <<>>) /\ UNCHANGED openPages
    /\ UNCHANGED <<now, call>>

\* run_one dropping the list scrape_source returned
run_one_result_none(pc, ret) == <<>>

\* lines 750 and 757: what run_one stores for its source
run_one_result(pc, ret) == IF pc = "returned" THEN ret ELSE <<>>

\* run_one without its except clause: the TimeoutError reaches gather
run_one_propagates_timeout(pc) == pc = "cancelled"

\* lines 751-757: "except Exception" catches what wait_for raises, the
\* TimeoutError included, so nothing propagates to gather
run_one_propagates(pc) == FALSE

\* run_one resumes after wait_for (lines 750-757)
RunOneSettle(r, i) ==
    LET t == Task(r, i) IN
    /\ t.pc \in {"returned", "cancelled"}
    /\ reqs' = [reqs EXCEPT
           ![r].tasks[i].pc = "settled",
           ![r].tasks[i].ret = <<>>,
           ![r].status = IF run_one_propagates(t.pc) THEN "raised" ELSE @,
           ![r].results = IF run_one_propagates(t.pc) THEN @
                          ELSE DictSet(@, t.src, run_one_result(t.pc, t.ret))]
    /\ UNCHANGED <<now, cache, written, openPages, call>>

\* scrape rejecting a request that names no registered id
scrape_outcome_rejecting(allowed) == IF allowed = <<>> THEN "raised" ELSE "done"

\* what scrape does once its filter has run (lines 740-760): it goes on to
\* gather and return, whatever the number of allowed ids
scrape_outcome(allowed) == "done"

\* gather is complete (line 759) and scrape returns results (line 760)
ScrapeReturn(r) ==
    /\ reqs[r].status = "running"
    /\ \A i \in TaskIds(r) : Task(r, i).pc = "settled"
    /\ reqs' = [reqs EXCEPT ![r].status = scrape_outcome(reqs[r].allowed)]
    /\ UNCHANGED <<now, cache, written, openPages, call>>

\* POST /clear-cache (lines 729-734)
ClearCache ==
    /\ cache' = CacheClear
    /\ written' = [k \in CacheKeys |-> NoWrite]
    /\ reqs' = [r \in Requests |->
                   [reqs[r] EXCEPT !.tasks =
                       [i \in TaskIds(r) |->
                           IF Task(r, i).pc \in Rendering /\ Task(r, i).how # "timeout"
                           THEN [Task(r, i) EXCEPT !.stale = TRUE]
                           ELSE Task(r, i)]]]
    /\ UNCHANGED <<now, openPages, call>>

\* a wait_for timer is due and has not fired
TimerDue ==
    \E r \in Requests : \E i \in TaskIds(r) :
        /\ Task(r, i).pc \in {"new_page", "closing"} \cup InTry
        /\ Task(r, i).how # "timeout"
        /\ ~NotDue(Task(r, i))

\* the clock advances; a due timer fires before it does
Tick ==
    /\ now < MaxTicks
    /\ ~TimerDue
    /\ now' = now + 1
    /\ UNCHANGED <<cache, written, reqs, openPages, call>>

Next ==
    \/ \E r \in Requests : \E sources \in SourceLists(r) : Scrape(r, sources)
    \/ \E r \in Requests : Begin(r)
    \/ \E r \in Requests : \E i \in TaskIds(r) :
          \/ NewPage(r, i)
          \/ Goto(r, i)
          \/ Content(r, i)
          \/ ClosePage(r, i)
          \/ Timeout(r, i)
          \/ RunOneSettle(r, i)
    \/ \E r \in Requests : ScrapeReturn(r)
    \/ ClearCache
    \/ Tick

Spec == Init /\ [][Next]_vars

(***************************************************************************)
(* resolve_url on its own: the arguments are drawn from the sets below,    *)
(* then the function is applied.                                           *)
(***************************************************************************)
Pending == [kind |-> "pending"]

HrefHosts == {"zuzu.deals", "ZUZU.DEALS", "www.buywithus.org", "il.bee.deals", "evil.example"}

HrefPorts == {"", "443"}

HrefPaths == {<<"x">>, <<"go.php">>}

Hrefs ==
    {Url("empty", "", "", "", <<>>), Url("opaque", "javascript", "", "", <<>>),
     Url("badabs", "https", "", "", <<>>), Url("badabs", "ftp", "", "", <<>>),
     Url("badnetrel", "", "", "", <<>>)}
    \cup {Url("abs", s, h, p, pa) : s \in {"https", "http", "ftp"}, h \in HrefHosts,
                                    p \in HrefPorts, pa \in HrefPaths}
    \cup {Url("netrel", "", h, p, pa) : h \in HrefHosts, p \in HrefPorts, pa \in HrefPaths}
    \cup {Url(k, "", "", "", pa) : k \in {"pathabs", "rel"}, pa \in HrefPaths}

BaseUrls == {SOURCE_MAP[s].url : s \in SourceIds}

Quiet ==
    /\ now = 0
    /\ cache = CacheClear
    /\ written = [k \in CacheKeys |-> NoWrite]
    /\ reqs = [r \in Requests |-> IdleRequest]
    /\ openPages = {}

InitResolve ==
    /\ Quiet
    /\ call \in {[fn |-> "resolve_url", base_url |-> b, href |-> h, allow_external |-> a,
                  result |-> Pending] : b \in BaseUrls, h \in Hrefs, a \in BOOLEAN}

ResolveCall ==
    /\ call.fn = "resolve_url"
    /\ call.result = Pending
    /\ call' = [call EXCEPT !.result = resolve_url(call.base_url, call.href, call.allow_external)]
    /\ UNCHANGED <<now, cache, written, reqs, openPages>>

SpecResolve == InitResolve /\ [][ResolveCall]_vars

(***************************************************************************)
(* extract_items on its own: a document of one or two nodes that the       *)
(* source's selector matches is drawn, then the function is applied with   *)
(* the url and selector scrape_source passes (lines 637-642).              *)
(***************************************************************************)
HrefEmpty == Url("empty", "", "", "", <<>>)

NodeAnchors ==
    {Anchor(h, b, pp) : h \in {NoUrl, HrefEmpty, HrefDeal1, HrefGo, HrefShop, HrefBroken},
                        b \in {NoUrl, HrefShop}, pp \in BOOLEAN}

\* the most <a> elements in a node
MaxAnchors == 1

AnchorSeqs == UNION {[1..n -> NodeAnchors] : n \in 0..MaxAnchors}

\* the class a source's selector matches
ClassOf(source_id) ==
    CASE source_id = "deal4real" -> "product-card"
      [] source_id = "beedeals" -> "pin nfDealItemsPin"
      [] OTHER -> "col_item"

FirstNodes(source_id) ==
    {Node(ClassOf(source_id), as, ng, t, p) :
        as \in AnchorSeqs, ng \in {"", "alphaId"}, t \in {NoText, <<>>, DealA},
        p \in {NoText, <<>>, Price5}}

SecondNodes(source_id) ==
    {Node(ClassOf(source_id), <<Anchor(HrefDeal1, NoUrl, FALSE)>>, "", DealAUpper, NoText),
     Node(ClassOf(source_id), <<>>, "", NoText, Price7),
     Node(ClassOf(source_id), <<>>, "", DealAUpper, Price7),
     Node("other", <<Anchor(HrefShop, NoUrl, FALSE)>>, "", DealB, NoText)}

Documents(source_id) ==
    UNION {{<<n1>>} \cup {<<n1, n2>> : n2 \in SecondNodes(source_id)} : n1 \in FirstNodes(source_id)}

InitExtract ==
    /\ Quiet
    /\ call \in UNION {{[fn |-> "extract_items", html |-> d, source_id |-> s, result |-> Pending] :
                           d \in Documents(s)} : s \in SourceIds}

ExtractCall ==
    /\ call.fn = "extract_items"
    /\ call.result = Pending
    /\ call' = [call EXCEPT !.result =
                   extract_items(call.html, SOURCE_MAP[call.source_id].url,
                                 SOURCE_MAP[call.source_id].selector, call.source_id)]
    /\ UNCHANGED <<now, cache, written, reqs, openPages>>

SpecExtract == InitExtract /\ [][ExtractCall]_vars

(***************************************************************************)
(* extract_items on one node, over the titles the lookups may end with.    *)
(***************************************************************************)
\* "12345", "ab", "X $9", "$10 ab", "Deal A $5.00"
TitleDigits == <<"1", "2", "3", "4", "5">>

TitleShort == <<"a", "b">>

TitleLetterPrice == <<"X", " ", "$", "9">>

TitlePriceShort == <<"$", "1", "0", " ", "a", "b">>

TitleWithPrice == DealA \o <<" ">> \o Price5

\* the promotional prefixes "raq be", "hahel me" and "raq" before a text
OnlyAt(t) == <<"resh", "qof", " ", "bet", " ">> \o t

StartingFrom(t) == <<"he", "het", "lamed", " ", "mem", "-", "NIS", " ">> \o t

Only(t) == <<"resh", "qof", " ", "$">> \o t

Titles ==
    {NoText, <<>>, DealA, TitleDigits, TitleShort, TitleLetterPrice, TitlePriceShort,
     TitleWithPrice, OnlyAt(TitleDigits), OnlyAt(DealA), OnlyAt(<<>>),
     StartingFrom(<<"9", "9">>), StartingFrom(DealA), Only(<<"5", " ">> \o DealA),
     Only(TitleShort)}

TitleNodes(source_id) ==
    {Node(ClassOf(source_id), as, "", t, p) :
        as \in {<<>>, <<Anchor(HrefDeal1, NoUrl, FALSE)>>}, t \in Titles,
        p \in {NoText, Price5}}

InitTitle ==
    /\ Quiet
    /\ call \in UNION {{[fn |-> "extract_items", html |-> <<n>>, source_id |-> s,
                          result |-> Pending] : n \in TitleNodes(s)} : s \in SourceIds}

SpecTitle == InitTitle /\ [][ExtractCall]_vars

(***************************************************************************)
(* extract_items on one node, over the price markup of the four sources.   *)
(***************************************************************************)
\* "NIS92", "92", "NIS150", "40%"
Current92 == <<"NIS", "9", "2">>

Bare92 == <<"9", "2">>

Previous150 == <<"NIS", "1", "5", "0">>

Percent40 == <<"4", "0", "%">>

\* the <div>s of a pricing wrapper: the current price, the previous price
\* and the discount, each there or not (NoText: not there)
WrapperDivs(current, previous, discount) ==
    (IF current = NoText THEN <<>> ELSE <<Div(CurrentLabel \o <<" ">>, current, <<>>)>>)
    \o (IF previous = NoText THEN <<>>
        ELSE <<Div(PreviousLabel \o <<":", " ">>, previous, <<>>)>>)
    \o (IF discount = NoText THEN <<>>
        ELSE <<Div(DiscountLabel \o <<" ">> \o discount, NoText, <<>>)>>)

Wrappers ==
    {NoWrapper} \cup
    {[present |-> TRUE, divs |-> WrapperDivs(c, p, d)] :
        c \in {NoText, Current92, Bare92}, p \in {NoText, Previous150},
        d \in {NoText, Percent40}}

\* "Black-7", "Black-77", "Sold out", "50%", "-20%", "New", "$0", "12.50", "Free"
Black7 == <<"B", "l", "a", "c", "k", "-", "7">>

Black77 == <<"B", "l", "a", "c", "k", "-", "7", "7">>

SoldOut == <<"S", "o", "l", "d", " ", "o", "u", "t">>

RegularPrices == {NoText, <<>>, Black7, Black77, SoldOut, Price199, <<"5", "0", "%">>}

Badges == {NoText, <<"-", "2", "0", "%">>, <<"N", "e", "w">>}

PinPrices == {NoText, Price5, <<"$", "0">>, <<"1", "2", ".", "5", "0">>, <<"F", "r", "e", "e">>}

PriceNodes(source_id) ==
    {[Node(ClassOf(source_id), <<Anchor(HrefDeal1, NoUrl, FALSE)>>, "", DealA, NoText)
         EXCEPT !.wrapper = w, !.regular_price = r, !.badge = b, !.pin_price = pp] :
        w \in Wrappers, r \in RegularPrices, b \in Badges, pp \in PinPrices}

InitPrice ==
    /\ Quiet
    /\ call \in UNION {{[fn |-> "extract_items", html |-> <<n>>, source_id |-> s,
                          result |-> Pending] : n \in PriceNodes(s)} : s \in SourceIds}

SpecPrice == InitPrice /\ [][ExtractCall]_vars

(***************************************************************************)
(* extract_items on one node, over the image markup of the four sources.   *)
(***************************************************************************)
\* " ", a data URI, a CDN url and a path
SrcBlank == [kind |-> "blank"]

SrcData == Url("opaque", "data", "", "", <<"image/png;base64,AAA">>)

SrcCdn == Url("abs", "https", "cdn.example", "", <<"a.jpg">>)

SrcPath == Url("pathabs", "", "", "", <<"img", "b.jpg">>)

Imgs ==
    {Img(FALSE, src, ds, NoUrl, bo, ss, st) :
        src \in {NoUrl, HrefEmpty, SrcBlank, SrcData, SrcCdn},
        ds \in {NoUrl, SrcPath}, bo \in {NoUrl, SrcData},
        ss \in {NoUrl, SrcData, SrcCdn}, st \in {NoUrl, SrcData, SrcPath}}
    \cup {Img(TRUE, NoUrl, SrcData, SrcCdn, NoUrl, NoUrl, NoUrl)}

ParentImgs ==
    {<<>>, <<NoImg, Img(FALSE, SrcData, NoUrl, SrcPath, NoUrl, NoUrl, NoUrl)>>}

\* where the first <img> of a node is
Places == {"wrapper", "parent_wrapper", "holder", "figure", "plain"}

\* a node whose only <img> is img, at place (in an ancestor for parent_wrapper)
ImageNode(source_id, place, img, parents) ==
    [Node(ClassOf(source_id), <<Anchor(HrefDeal1, NoUrl, FALSE)>>, "", DealA, NoText)
        EXCEPT !.image_wrapper = IF place = "wrapper"
                                 THEN [present |-> TRUE, imgs |-> <<img>>] ELSE @,
               !.parent_wrapper = IF place = "parent_wrapper"
                                  THEN [present |-> TRUE, imgs |-> <<img>>] ELSE @,
               !.holder_img = IF place = "holder" THEN img ELSE @,
               !.figure_img = IF place = "figure" THEN img ELSE @,
               !.first_img = IF place = "parent_wrapper" THEN @ ELSE img,
               !.parent_imgs = IF place = "parent_wrapper" THEN <<img>> \o parents
                               ELSE parents]

InitImage ==
    /\ Quiet
    /\ call \in UNION {{[fn |-> "extract_items", html |-> <<ImageNode(s, pl, img, ps)>>,
                          source_id |-> s, result |-> Pending] :
                           pl \in Places, img \in Imgs, ps \in ParentImgs} : s \in SourceIds}

SpecImage == InitImage /\ [][ExtractCall]_vars

(***************************************************************************)
(* Properties of /scrape, checked under Spec.                              *)
(***************************************************************************)
\* the registered ids among those a request asked for
ValidRequested(r) == {s \in Range(reqs[r].requested) : s \in SourceIds}

\* run_one of task i of request r resumes after wait_for in this step
Settles(r, i) ==
    /\ Task(r, i).pc \in {"returned", "cancelled"}
    /\ reqs'[r].tasks[i].pc = "settled"

\* scrape_source of task i of request r ends in this step
Ends(r, i) ==
    /\ Task(r, i).pc \notin {"returned", "cancelled", "settled"}
    /\ reqs'[r].tasks[i].pc \in {"returned", "cancelled"}

\* the settling of task i leaves every entry but its own as it was
OnlyOwnEntry(r, i) ==
    /\ DOMAIN reqs'[r].results = DOMAIN reqs[r].results
    /\ \A s \in DOMAIN reqs[r].results \ {Task(r, i).src} :
           reqs'[r].results[s] = reqs[r].results[s]

\* C1: the map a /scrape request returns has an entry for exactly the
\* requested ids that are registered, whatever its tasks ended in and
\* however often an id was requested
C1_OneEntryPerValidId ==
    \A r \in Requests :
        reqs[r].status = "done" => DOMAIN reqs[r].results = ValidRequested(r)

C1_Witness ==
    \E r \in Requests :
        /\ reqs[r].status = "done"
        /\ "unknown" \in Range(reqs[r].requested)
        /\ \E i, j \in TaskIds(r) :
               /\ Task(r, i).how = "timeout"
               /\ Task(r, j).how = "ok"
               /\ DOMAIN reqs[r].results = {Task(r, i).src, Task(r, j).src}

\* C2: failure isolation.  No step makes a request raise; when the task of
\* a source whose render or extraction raised settles, that source's entry
\* is the empty list; when a task that produced a list settles, the entry is
\* that list; a settling task changes no entry but its own, and nothing
\* else changes the map of a running request
C2_FailureIsolation ==
    [][\A r \in Requests :
          /\ reqs'[r].status # "raised"
          /\ \A i \in TaskIds(r) :
                 Settles(r, i) =>
                     /\ OnlyOwnEntry(r, i)
                     /\ reqs'[r].results[Task(r, i).src] =
                            IF Task(r, i).how = "exc" THEN <<>> ELSE Task(r, i).ret
          /\ (reqs[r].status = "running" /\ ~ \E i \in TaskIds(r) : Settles(r, i))
                 => reqs'[r].results = reqs[r].results]_vars

C2_Witness ==
    \E r \in Requests :
        /\ reqs[r].status = "done"
        /\ \E i, j \in TaskIds(r) :
               /\ Task(r, i).src # Task(r, j).src
               /\ Task(r, i).how = "exc"
               /\ reqs[r].results[Task(r, i).src] = <<>>
               /\ Task(r, j).how = "ok"
               /\ reqs[r].results[Task(r, j).src] # <<>>

\* the last write of key is less than the TTL ago and no clear-cache followed it
Fresh(key) == written[key].at >= 0 /\ Time < written[key].at + CACHE_TTL

\* C3: cache TTL.  A scrape that starts within the TTL of the last write of
\* its source's key returns the written list and opens no page; one that
\* starts after the TTL has expired, after a clear-cache, or with no write
\* before it goes on to the renderer; a scrape served from the cache never
\* has a page
C3_CacheTTL ==
    [][\A r \in Requests : \A i \in TaskIds(r) :
          /\ (Task(r, i).pc = "start" /\ reqs'[r].tasks[i].pc # "start") =>
                 IF Fresh(cache_key(Task(r, i).src))
                 THEN /\ reqs'[r].tasks[i].pc = "returned"
                      /\ reqs'[r].tasks[i].how = "hit"
                      /\ reqs'[r].tasks[i].ret = written[cache_key(Task(r, i).src)].value
                      /\ openPages' = openPages
                 ELSE reqs'[r].tasks[i].pc = "new_page"
          /\ Task(r, i).how = "hit" => Task(r, i).page = NoPage]_vars

C3_Witness ==
    \E r \in Requests : \E i \in TaskIds(r) :
        /\ Task(r, i).how = "hit"
        /\ Task(r, i).pc = "returned"
        /\ Task(r, i).ret # <<>>
        /\ now > 0

\* C4: whenever a scrape ends in an exception or in the per-source timeout,
\* the empty list is in the cache under its source's key when it ends
C4_FailureCached ==
    [][\A r \in Requests : \A i \in TaskIds(r) :
          (Ends(r, i) /\ reqs'[r].tasks[i].how \in {"exc", "timeout"}) =>
              /\ CacheContains(cache', cache_key(Task(r, i).src), Time)
              /\ CacheGet(cache', cache_key(Task(r, i).src)) = <<>>]_vars

\* C5: the per-source timeout.  The timer fires only once the timeout has
\* passed; the scrape it cancels is then in its finally clause or ended, and
\* its page is closed; when the task of a timed-out scrape settles, its
\* source's entry is the empty list, no other entry changes and the request
\* goes on running
C5_PerSourceTimeout ==
    [][\A r \in Requests : \A i \in TaskIds(r) :
          /\ (Task(r, i).how # "timeout" /\ reqs'[r].tasks[i].how = "timeout") =>
                 /\ Time >= Task(r, i).deadline
                 /\ reqs'[r].tasks[i].pc \in {"closing", "cancelled"}
                 /\ reqs'[r].tasks[i].page \notin openPages'
          /\ (Task(r, i).how = "timeout" /\ Settles(r, i)) =>
                 /\ reqs'[r].results[Task(r, i).src] = <<>>
                 /\ OnlyOwnEntry(r, i)
                 /\ reqs'[r].status = "running"]_vars

C5_Witness ==
    \E r \in Requests :
        /\ reqs[r].status = "done"
        /\ \E i, j \in TaskIds(r) :
               /\ Task(r, i).how = "timeout"
               /\ Task(r, i).page # NoPage
               /\ reqs[r].results[Task(r, i).src] = <<>>
               /\ Task(r, j).how = "ok"
               /\ reqs[r].results[Task(r, j).src] # <<>>

C8_NoValidIdIsError ==
    \A r \in Requests : reqs[r].status = "done" => reqs[r].allowed # <<>>

\* C8: a request that names no registered id never raises; it runs and
\* returns, and its map is empty
C8_NoValidIdReturnsEmpty ==
    \A r \in Requests :
        (reqs[r].status # "idle" /\ ValidRequested(r) = {}) =>
            /\ reqs[r].status \in {"running", "done"}
            /\ DOMAIN reqs[r].results = {}

C8_Witness ==
    \E r \in Requests :
        /\ reqs[r].status = "done"
        /\ reqs[r].requested # <<>>
        /\ ValidRequested(r) = {}
        /\ DOMAIN reqs[r].results = {}

\* scrape_source of the task has called fetch_page_html
Rendered(t) == t.pc \in Rendering \/ t.how \in {"ok", "exc", "timeout"}

\* C16: in one /scrape request there is one task per registered requested
\* id, none for an unknown id, and the renderer is invoked at most once per
\* source id, also when the list repeats an id
C16_OneTaskPerId ==
    \A r \in Requests :
        /\ \A i \in TaskIds(r) : Task(r, i).src \in SourceIds
        /\ \A i, j \in TaskIds(r) : Task(r, i).src = Task(r, j).src => i = j
        /\ \A s \in SourceIds :
               Cardinality({i \in TaskIds(r) : Task(r, i).src = s /\ Rendered(Task(r, i))}) <= 1

\* C18: an unexpired cache entry was never written by a scrape whose render
\* had started before the last clear-cache
C18_NoStaleEntryAfterClear ==
    \A s \in SourceIds :
        CacheContains(cache, cache_key(s), Time) => ~written[cache_key(s)].stale

\* the scrapes of source s that are between their cache check and their end
InFlight(s) ==
    {<<r, i>> \in Requests \X (1..4) :
        i \in TaskIds(r) /\ Task(r, i).src = s /\ Task(r, i).pc \in Rendering}

HostAllowListed(url) == url.kind = "abs" /\ Lower(url.host) \in WHITELIST_HOSTS

\* C9: every link of every record extract_items outputs, for every source,
\* is None or an absolute URL whose host is in the allowlist
C9_LinksAllowListed ==
    (call.fn = "extract_items" /\ call.result # Pending) =>
        \A k \in 1..Len(call.result.items) :
            \/ call.result.items[k].link = NoUrl
            \/ HostAllowListed(call.result.items[k].link)

\* the URL an href denotes against a base: itself when absolute, else joined
Target(base_url, href) ==
    IF href.kind \in {"abs", "badabs"} THEN href ELSE urljoin(base_url, href)

\* C10: resolve_url gives None for an empty href; with allow_external an
\* absolute href unchanged and a relative one joined against the base;
\* without it that URL when its host is in the allowlist and None otherwise
C10_ResolveUrl ==
    (call.fn = "resolve_url" /\ call.result # Pending) =>
        IF call.href.kind = "empty" THEN call.result = NoUrl
        ELSE IF call.allow_external
        THEN call.result = Target(call.base_url, call.href)
        ELSE call.result = IF HostAllowListed(Target(call.base_url, call.href))
                           THEN Target(call.base_url, call.href)
                           ELSE NoUrl

(***************************************************************************)
(* Properties of the records extract_items outputs, checked under          *)
(* SpecExtract.                                                            *)
(***************************************************************************)
\* extract_items has returned a list (it did not raise)
Extracted ==
    call.fn = "extract_items" /\ call.result # Pending /\ ~call.result.raised

\* the records of the selected nodes of the call, in DOM order, before the
\* minimum-field rule and the dedup
CallRecords ==
    LET src   == call.source_id
        nodes == select(call.html, SOURCE_MAP[src].selector)
    IN SelectSeq([k \in 1..Len(nodes) |->
                     Bind(title_and_price(nodes[k], src), LAMBDA tp :
                         [title |-> tp.title,
                          link  |-> extract_link(nodes[k], SOURCE_MAP[src].url, src),
                          price |-> tp.price,
                          image |-> image_of(nodes[k], SOURCE_MAP[src].url, src)])],
                 LAMBDA r : TRUE)

\* the minimum-field rule
Retained(rec, source_id) ==
    IF source_id = "beedeals" THEN TruthyText(rec.title) \/ Truthy(rec.link)
    ELSE TruthyText(rec.title) \/ Truthy(rec.link) \/ TruthyText(rec.price)

\* the dedup key of a record: its link, else its lower-cased title, else none
KeyOf(rec) ==
    IF Truthy(rec.link) THEN [k |-> "link", url |-> rec.link, text |-> ""]
    ELSE IF TruthyText(rec.title) THEN [k |-> "text", url |-> NoUrl, text |-> LowerText(rec.title)]
    ELSE [k |-> "none", url |-> NoUrl, text |-> ""]

\* the positions of the records recs that pass the minimum-field rule
RetainedAt(recs) == {k \in 1..Len(recs) : Retained(recs[k], call.source_id)}

\* the positions of the retained records that are the first with their key
FirstOfKeyAt(recs) ==
    {k \in RetainedAt(recs) :
        /\ KeyOf(recs[k]).k # "none"
        /\ \A j \in RetainedAt(recs) : j < k => KeyOf(recs[j]) # KeyOf(recs[k])}

\* C11: in the output of extract_items no two records share a dedup key;
\* the records that have a key are, in DOM order, the first retained record
\* of each key with its own field values, and the whole output is a
\* subsequence of the records in DOM order
C11_Dedup ==
    Extracted =>
        \A recs \in {CallRecords} :
            /\ \A i, j \in 1..Len(call.result.items) :
                   (i < j /\ KeyOf(call.result.items[i]).k # "none")
                       => KeyOf(call.result.items[i]) # KeyOf(call.result.items[j])
            /\ SelectSeq(call.result.items, LAMBDA r : KeyOf(r).k # "none")
                   = Pick(recs, FirstOfKeyAt(recs))
            /\ \E S \in SUBSET RetainedAt(recs) : call.result.items = Pick(recs, S)

C11_Witness ==
    /\ Extracted
    /\ Len(call.result.items) = 1
    /\ \E recs \in {CallRecords} :
           /\ RetainedAt(recs) = {1, 2}
           /\ KeyOf(recs[1]).k = "text"
           /\ KeyOf(recs[1]) = KeyOf(recs[2])
           /\ recs[1].title # recs[2].title
           /\ call.result.items[1] = recs[1]

\* C12: every record extract_items outputs has a title, a link or a price,
\* and for beedeals a title or a link; a node that yields none of the
\* required fields gives no record
C12_MinimumFields ==
    Extracted =>
        \A k \in 1..Len(call.result.items) :
            Retained(call.result.items[k], call.source_id)

C12_Witness ==
    /\ Extracted
    /\ call.source_id = "beedeals"
    /\ \E recs \in {CallRecords} :
           /\ Len(recs) = 2
           /\ RetainedAt(recs) = {2}
           /\ TruthyText(recs[1].price)
           /\ call.result.items = <<recs[2]>>

\* C20: the output of extract_items is, in DOM order, every retained record
\* except those that an earlier retained record shares its dedup key with;
\* the retained records without a key (no link, no title) are all kept
C20_KeylessAllKept ==
    Extracted =>
        \A recs \in {CallRecords} :
            call.result.items =
                Pick(recs, {k \in RetainedAt(recs) : KeyOf(recs[k]).k = "none"}
                               \cup FirstOfKeyAt(recs))

(***************************************************************************)
(* The price, the image and the title of the records.                      *)
(***************************************************************************)
\* the only node of the call
OnlyNode == call.html[1]

\* the call has given the record of its only node
OneRecord == Extracted /\ Len(call.html) = 1 /\ Len(call.result.items) = 1

\* a (b)
WithParen(a, b) == a \o <<" ", "(">> \o b \o <<")">>

\* C13: for deal4real the price of a node with a pricing wrapper is
\* "<current> (<previous>)" when the current and the previous price are
\* found, "<current> (<percent>%)" when the current price and the discount
\* but no previous price are found, "<current>" when only the current price
\* is found, the percentage when only the discount is found; a previous
\* price is never output as the price
C13_PriceAssembly ==
    (OneRecord /\ call.source_id = "deal4real" /\ OnlyNode.wrapper.present) =>
        \A found \in {price_divs(OnlyNode.wrapper.divs, Len(OnlyNode.wrapper.divs))} :
        \A price \in {call.result.items[1].price} :
            LET current  == TruthyText(found.price_text)
                previous == TruthyText(found.original_price)
                discount == TruthyText(found.discount_text)
            IN /\ (current /\ previous)
                   => price = WithParen(found.price_text, found.original_price)
               /\ (current /\ ~previous /\ discount)
                   => price = WithParen(found.price_text, found.discount_text)
               /\ (current /\ ~previous /\ ~discount) => price = found.price_text
               /\ (~current /\ ~previous /\ discount) => price = found.discount_text
               /\ previous => price # found.original_price

\* a currency sign, a numeral, and nothing more or a parenthesis to the end
IsCurrencyPrice(p) ==
    \A m \in {currency_price_search(p)} :
        /\ m.from = 1
        /\ \/ m.to = Len(p)
           \/ /\ m.to + 3 <= Len(p)
              /\ SubSeq(p, m.to + 1, m.to + 2) = <<" ", "(">>
              /\ p[Len(p)] = ")"

\* digits, possibly a fraction, and a percent sign, after a sign or not
IsPercentage(p) ==
    \A m \in {percent_search(p)} :
        m.from # 0 /\ m.to = Len(p) /\ (m.from = 1 \/ (m.from = 2 /\ p[1] \in {"-", "+"}))

\* C14: every price of an output record that is not null is a numeral with
\* a currency sign before it, with or without a parenthesis after it, or a
\* percentage; digits without a currency sign before them never become a
\* price, whatever the source
C14_PriceWellFormed ==
    Extracted =>
        \A k \in 1..Len(call.result.items) :
            \A price \in {call.result.items[k].price} :
                price # NoText => IsCurrencyPrice(price) \/ IsPercentage(price)

\* C15: no output record has a data URI as its image, whichever lookup the
\* image comes from
C15_NoDataUriImage ==
    Extracted =>
        \A k \in 1..Len(call.result.items) : ~IsDataUri(call.result.items[k].image)

\* C17: every title of an output record that is not null has at least
\* three characters and is not digits only once its whitespace and
\* punctuation are removed, the prefix stripping and the price/title
\* reconciliation having run
C17_FinalTitleValid ==
    Extracted =>
        \A k \in 1..Len(call.result.items) :
            \A title \in {call.result.items[k].title} :
                title # NoText =>
                    /\ Len(StripText(title)) >= MinTitleLen
                    /\ ~AllDigits(SelectSeq(title, LAMBDA c : c \notin TitleNoise))

=============================================================================
